---- MODULE Spec2Model ----
(***************************************************************************)
(* Model of libworkspace.c: the LD_PRELOAD library that redirects file     *)
(* operations on /workspace to a host file server over vsock and caches    *)
(* the fetched objects under /tmp/.wscache/.                               *)
(*                                                                         *)
(* Threads are the OS threads of the hosting process.  A thread that is    *)
(* "idle" is outside the library; every other pc is a position inside one  *)
(* intercepted call.  The host, the local filesystem calls that may fail   *)
(* and the scheduler are nondeterministic.                                 *)
(***************************************************************************)
EXTENDS Integers, Sequences, FiniteSets, TLC

(* ------------------------------------------------------------------ *)
(* Program constants                                                    *)
(* ------------------------------------------------------------------ *)
WORKSPACE_PREFIX == "/workspace/"
WORKSPACE_PREFIX_LEN == 11
WORKSPACE_DIR == "/workspace"
CACHE_DIR == "/tmp/.wscache/"
READ_CHUNK_SIZE == 1048576
MAX_FRAME == 16777216
STAT_HDR == 22
READ_HDR == 5
PATH_MAX == 4096
AT_FDCWD == -100
S_IFDIR == 16384
S_IFREG == 32768
S_IFMT == 61440
STATUS_OK == 0
STATUS_NOENT == 1

(* ------------------------------------------------------------------ *)
(* Bounds of the model                                                  *)
(* ------------------------------------------------------------------ *)
MaxConn == 2      \* sockets the process may create in one run
MaxShort == 1     \* READ replies per download that carry fewer bytes than asked
MaxSize == 3      \* largest file size of which every READ reply is enumerated

Threads == {"t1", "t2"}
NoThread == "none"

(* The representation of a NULL pathname argument. *)
NULL == "(null)"

(* ------------------------------------------------------------------ *)
(* Strings                                                              *)
(* ------------------------------------------------------------------ *)
StartsWith(s, p) == Len(s) >= Len(p) /\ SubSeq(s, 1, Len(p)) = p

HasChar(s, c) == \E i \in 1..Len(s) : SubSeq(s, i, i) = c

Tail_(s, n) == SubSeq(s, n + 1, Len(s))

(* ------------------------------------------------------------------ *)
(* Environment of the process: working directory and descriptor table  *)
(* ------------------------------------------------------------------ *)
CWD == "/home"
WsFd == 3         \* a descriptor open on /workspace
BadFd == 9        \* a descriptor that is not open
FdLink(fd) == IF fd = WsFd THEN WORKSPACE_DIR ELSE NULL

(* ------------------------------------------------------------------ *)
(* Path helpers                                                         *)
(* ------------------------------------------------------------------ *)
(* resolve_path: NULL stands for the -1 return. *)
resolve_path(dirfd, pathname) ==
  IF pathname = NULL THEN NULL
  ELSE IF StartsWith(pathname, "/")
       THEN IF Len(pathname) >= PATH_MAX THEN NULL ELSE pathname
       ELSE LET dirpath == IF dirfd = AT_FDCWD THEN CWD ELSE FdLink(dirfd)
            IN IF dirpath = NULL THEN NULL
               ELSE IF Len(dirpath) + 1 + Len(pathname) >= PATH_MAX THEN NULL
               ELSE dirpath \o "/" \o pathname

(* A classification by the root as a plain string prefix. *)
is_workspace_path_prefix(resolved) ==
  IF StartsWith(resolved, WORKSPACE_DIR)
  THEN <<1, Tail_(resolved, Len(WORKSPACE_DIR))>>
  ELSE <<0, "">>

(* is_workspace_path: <<1, rel>> or <<0, "">>. *)
is_workspace_path(resolved) ==
  IF StartsWith(resolved, WORKSPACE_PREFIX)
  THEN <<1, Tail_(resolved, WORKSPACE_PREFIX_LEN)>>
  ELSE IF resolved = WORKSPACE_DIR THEN <<1, "">>
  ELSE <<0, "">>

cache_path_for(rel) == CACHE_DIR \o rel

(* ------------------------------------------------------------------ *)
(* The local cache tree, keyed by the path below CACHE_DIR ("" is the   *)
(* cache root itself).  A file's data is the sequence of chunks written *)
(* to it, each the remote offset it came from and its byte count; `by`  *)
(* is the thread whose download produced it.                            *)
(* ------------------------------------------------------------------ *)
CacheKeys == {"", "d", "d/g"}

NoEnt == [type |-> "none", by |-> NoThread, data |-> <<>>]
DirEnt == [type |-> "dir", by |-> NoThread, data |-> <<>>]
FileEnt(t, data) == [type |-> "file", by |-> t, data |-> data]

RECURSIVE LastSlash(_, _)
LastSlash(s, i) ==
  IF i = 0 THEN 0
  ELSE IF SubSeq(s, i, i) = "/" THEN i ELSE LastSlash(s, i - 1)

(* The directory that holds cache key k (k # ""). *)
Parent(k) ==
  LET i == LastSlash(k, Len(k)) IN IF i = 0 THEN "" ELSE SubSeq(k, 1, i - 1)

RECURSIVE DataLen(_)
DataLen(data) ==
  IF data = <<>> THEN 0 ELSE Head(data).n + DataLen(Tail(data))

(* mkdir(2) on a cache key; the code ignores its result. *)
Mkdir(fs, k) ==
  IF fs[k].type = "none" /\ (k = "" \/ fs[Parent(k)].type = "dir")
  THEN [fs EXCEPT ![k] = DirEnt]
  ELSE fs

(* mkdirs: the cache root, then every ancestor of the path, outermost first. *)
RECURSIVE MkdirsFrom(_, _, _)
MkdirsFrom(fs, rel, i) ==
  IF i > Len(rel) THEN fs
  ELSE IF SubSeq(rel, i, i) = "/"
       THEN MkdirsFrom(Mkdir(fs, SubSeq(rel, 1, i - 1)), rel, i + 1)
       ELSE MkdirsFrom(fs, rel, i + 1)

mkdirs(fs, rel) == MkdirsFrom(Mkdir(fs, ""), rel, 1)

(* A cache check that never finds the entry. *)
CacheExists_never(fs, rel) == FALSE

(* real_fstatat(AT_FDCWD, cache_path, ...) == 0 *)
CacheExists(fs, rel) == rel \in CacheKeys /\ fs[rel].type # "none"

(* The status the real fstatat reports for a cache entry. *)
LocalStat(e) ==
  IF e.type = "dir"
  THEN [st_mode |-> S_IFDIR + 493, st_size |-> 4096, st_nlink |-> 2]
  ELSE [st_mode |-> S_IFREG + 384, st_size |-> DataLen(e.data), st_nlink |-> 1]

NoStat == [st_mode |-> 0, st_size |-> 0, st_nlink |-> 0]

(* ------------------------------------------------------------------ *)
(* Calls and their results                                              *)
(* ------------------------------------------------------------------ *)
(* flags: the open flags (O_RDONLY is the empty set), the AT_ flags of  *)
(* fstatat, or the access mode bits of faccessat; mode: the creation    *)
(* mode of an open; smode: the mode string of fopen.                    *)
MkCall(fn, dirfd, pathname, flags, mode, smode) ==
  [fn |-> fn, dirfd |-> dirfd, pathname |-> pathname, flags |-> flags,
   mode |-> mode, smode |-> smode]

NoCall == MkCall("none", AT_FDCWD, NULL, {}, 0, "")

(* kind "real": the value and errno are those of the real call `call`;  *)
(* errno is filled in where the cache model decides it.                 *)
(* kind "ok": return 0 (st is what a status query stored).              *)
(* kind "err": return -1 (NULL for fopen) with errno.                   *)
RetReal(call, errno, wrap) ==
  [kind |-> "real", errno |-> errno, st |-> NoStat, call |-> call, wrap |-> wrap]
RetOk(st) ==
  [kind |-> "ok", errno |-> "", st |-> st, call |-> NoCall, wrap |-> ""]
RetErr(e) ==
  [kind |-> "err", errno |-> e, st |-> NoStat, call |-> NoCall, wrap |-> ""]
NoRet == [kind |-> "none", errno |-> "", st |-> NoStat, call |-> NoCall, wrap |-> ""]

(* Whether the caller saw the call succeed. *)
Succeeded(r) == r.kind = "ok" \/ (r.kind = "real" /\ r.errno = "")

(* Classification of a call's path: <<in-namespace, rel>>. *)
Classify(c) ==
  LET resolved == resolve_path(c.dirfd, c.pathname)
  IN IF resolved = NULL THEN <<0, "">> ELSE is_workspace_path(resolved)

RelOf(c) == Classify(c)[2]

(* A write-intent test that looks at O_WRONLY only. *)
WriteIntent_wronly(c) ==
  CASE c.fn = "openat" -> "O_WRONLY" \in c.flags
    [] c.fn = "faccessat" -> "W_OK" \in c.flags
    [] c.fn = "fopen" ->
         HasChar(c.smode, "w") \/ HasChar(c.smode, "a") \/ HasChar(c.smode, "+")
    [] OTHER -> FALSE

(* The write-intent test of each entry point. *)
WriteIntent(c) ==
  CASE c.fn = "openat" -> c.flags \cap {"O_WRONLY", "O_RDWR"} # {}
    [] c.fn = "faccessat" -> "W_OK" \in c.flags
    [] c.fn = "fopen" ->
         HasChar(c.smode, "w") \/ HasChar(c.smode, "a") \/ HasChar(c.smode, "+")
    [] OTHER -> FALSE

(* A delegation that drops the creation flags. *)
RealFlags_stripped(c) == c.flags \ {"O_CREAT", "O_EXCL"}

(* The delegation of an outside call to the real implementation. *)
RealFlags(c) == c.flags

Delegate(c) ==
  MkCall(IF c.fn = "fopen" THEN "real_fopen" ELSE "real_" \o c.fn,
         c.dirfd, c.pathname, RealFlags(c), c.mode, c.smode)

(* The open flags the open path works with: fopen calls openat with O_RDONLY. *)
OFlags(c) == IF c.fn = "fopen" THEN {} ELSE c.flags

(* A cache open that hands the caller's flags through. *)
StripFlags_kept(flags) == flags

(* The flags handed to the real open of the cache path. *)
StripFlags(flags) == flags \ {"O_CREAT", "O_EXCL"}

(* How the call a thread starts relates to the call it made just before:  *)
(* "same_ok" / "same_fail" when both are the same entry point on the same *)
(* workspace path, neither with write intent, by the earlier one's result.*)
PrevOf(c0, r0, c) ==
  IF c0.fn = c.fn /\ Classify(c0) = Classify(c) /\ Classify(c)[1] = 1
     /\ ~WriteIntent(c0) /\ ~WriteIntent(c)
  THEN IF Succeeded(r0) THEN "same_ok" ELSE "same_fail"
  ELSE "other"

(* ------------------------------------------------------------------ *)
(* Wire protocol                                                        *)
(* ------------------------------------------------------------------ *)
RECURSIVE BitOr(_, _)
BitOr(a, b) ==
  IF a = 0 THEN b
  ELSE IF b = 0 THEN a
  ELSE (IF a % 2 = 1 \/ b % 2 = 1 THEN 1 ELSE 0) + 2 * BitOr(a \div 2, b \div 2)

RECURSIVE BitAnd(_, _)
BitAnd(a, b) ==
  IF a = 0 \/ b = 0 THEN 0
  ELSE (IF a % 2 = 1 /\ b % 2 = 1 THEN 1 ELSE 0) + 2 * BitAnd(a \div 2, b \div 2)

S_ISDIR(m) == BitAnd(m, S_IFMT) = S_IFDIR

Min(a, b) == IF a < b THEN a ELSE b

(* A request: the opcode and, for READ, the offset and length asked. *)
StatReq == [op |-> "STAT", off |-> 0, len |-> 0]
ReadReq(off, len) == [op |-> "READ", off |-> off, len |-> len]
NoReq == [op |-> "none", off |-> 0, len |-> 0]
ConnectEv == [op |-> "CONNECT", off |-> 0, len |-> 0]

(* A response frame: its declared length and the fields of its payload  *)
(* (status; mode, size, is_dir of STAT; bytes_read of READ).  Fields    *)
(* beyond the declared length are absent and kept zero.                 *)
Frame(len, status, mode, size, is_dir, br) ==
  [len |-> len, status |-> status, mode |-> mode, size |-> size,
   is_dir |-> is_dir, br |-> br]

NoFrame == Frame(0, 0, 0, 0, 0, 0)

(* What the host may report about an object. *)
Modes == {420, 33188, 16877}      \* 0644, S_IFREG|0644, S_IFDIR|0755
Sizes == {0, READ_CHUNK_SIZE, 3000000}

(* The frames a host may answer a STAT with: every kind of frame when   *)
(* `full`, else one frame of each outcome.                              *)
StatFrames(full) ==
  {Frame(0, 0, 0, 0, 0, 0), Frame(1, STATUS_NOENT, 0, 0, 0, 0)}
  \cup (IF full
        THEN {Frame(MAX_FRAME + 1, 0, 0, 0, 0, 0), Frame(1, STATUS_OK, 0, 0, 0, 0),
              Frame(STAT_HDR - 1, STATUS_OK, 0, 0, 0, 0),
              Frame(MAX_FRAME, STATUS_OK, 420, 3000000, 0, 0)}
             \cup {Frame(STAT_HDR, STATUS_OK, m, sz, d, 0) :
                     m \in Modes, sz \in Sizes, d \in {0, 1}}
        ELSE {Frame(STAT_HDR, STATUS_OK, 420, 2 * READ_CHUNK_SIZE, 0, 0),
              Frame(STAT_HDR, STATUS_OK, 16877, 4096, 1, 0)})

(* The frames a host may answer READ(off, want) with; `short` tells     *)
(* whether a reply with fewer bytes than asked is still within bounds.  *)
ReadFrames(want, full, short) ==
  {Frame(MAX_FRAME + 1, 0, 0, 0, 0, 0),
   Frame(READ_HDR, STATUS_OK, 0, 0, 0, 0),
   Frame(READ_HDR + want, STATUS_OK, 0, 0, 0, want)}
  \cup (IF full
        THEN {Frame(0, 0, 0, 0, 0, 0),
              Frame(1, STATUS_OK, 0, 0, 0, 0), Frame(1, STATUS_NOENT, 0, 0, 0, 0),
              Frame(READ_HDR + want, STATUS_OK, 0, 0, 0, want + 1),
              Frame(READ_HDR + want + 1, STATUS_OK, 0, 0, 0, want + 1),
              Frame(MAX_FRAME, STATUS_OK, 0, 0, 0, want)}
        ELSE {})
  \cup (IF full /\ short /\ want > 1
        THEN {Frame(READ_HDR + (want \div 2), STATUS_OK, 0, 0, 0, want \div 2)}
        ELSE {})

(* The sizes a host reports in the download workload: the small ones,   *)
(* and one byte more than a chunk.                                      *)
DlSizes == 0..MaxSize \cup {READ_CHUNK_SIZE + 1}

(* The frames a host may answer a STAT with in the download workload. *)
StatFramesDl ==
  {Frame(0, 0, 0, 0, 0, 0), Frame(1, STATUS_NOENT, 0, 0, 0, 0),
   Frame(STAT_HDR, STATUS_OK, 16877, 4096, 1, 0)}
  \cup {Frame(STAT_HDR, STATUS_OK, 420, sz, 0, 0) : sz \in DlSizes}

(* The byte counts a reply to READ(off, want) may carry or claim: every *)
(* count up to one more than asked for a small request, else the ends   *)
(* of that range, the short ones only while `short`.                    *)
Payloads(want, short) ==
  IF want <= MaxSize THEN 0..(want + 1)
  ELSE {0, want, want + 1} \cup (IF short THEN {1, want - 1} ELSE {})

(* The frames a host may answer READ(off, want) with in the download    *)
(* workload: the bytes present and the bytes claimed vary independently.*)
ReadFramesDl(want, short) ==
  {Frame(0, 0, 0, 0, 0, 0), Frame(MAX_FRAME + 1, 0, 0, 0, 0, 0),
   Frame(1, STATUS_OK, 0, 0, 0, 0), Frame(1, STATUS_NOENT, 0, 0, 0, 0),
   Frame(READ_HDR - 1, STATUS_OK, 0, 0, 0, 0)}
  \cup {Frame(READ_HDR + p, STATUS_OK, 0, 0, 0, c) :
          p \in Payloads(want, short), c \in Payloads(want, short)}

(* send_request's test of the declared length. *)
FrameLenOk(len) == ~(len = 0 \/ len > MAX_FRAME)

(* remote_stat's parse: <<rc, st>>. *)
ParseStat(f) ==
  IF f.len < 1 \/ f.status # STATUS_OK THEN <<-1, NoStat>>
  ELSE IF f.len < STAT_HDR THEN <<-1, NoStat>>
  ELSE <<0, [st_mode |-> BitOr(f.mode, IF f.is_dir # 0 THEN S_IFDIR ELSE S_IFREG),
             st_size |-> f.size,
             st_nlink |-> IF f.is_dir # 0 THEN 2 ELSE 1]>>

(* A parse that trusts the byte count the host claims. *)
ParseRead_unclamped(f, len) ==
  IF f.len < 1 \/ f.status # STATUS_OK THEN -1
  ELSE IF f.len < READ_HDR THEN 0
  ELSE f.br

(* remote_read_chunk's parse: the byte count returned, -1 on error. *)
ParseRead(f, len) ==
  IF f.len < 1 \/ f.status # STATUS_OK THEN -1
  ELSE IF f.len < READ_HDR THEN 0
  ELSE Min(Min(f.br, f.len - READ_HDR), len)

(* A download loop that always asks for a whole chunk. *)
Want_whole_chunk(file_size, offset) == READ_CHUNK_SIZE

(* The request of the download loop at an offset. *)
Want(file_size, offset) == Min(READ_CHUNK_SIZE, file_size - offset)

(* ------------------------------------------------------------------ *)
(* State                                                                *)
(* ------------------------------------------------------------------ *)
VARIABLES
  wl,         \* the workload of the run: "seq" (one caller), "conc" (two), "dl", "paths"
  pc,         \* per thread: its position in the library ("idle": outside)
  cur,        \* per thread: the arguments of its current (or last) call
  ret,        \* per thread: the result of its last completed call
  prev,       \* per thread: how the current call relates to the one before
  hit,        \* per thread: whether the cache check of the call found the entry
  in_hook,    \* per thread: the re-entrancy guard
  log,        \* per thread: connects attempted and requests sent in this call
  xop,        \* per thread: the request of the exchange in progress
  resp_len,   \* per thread: send_request's *resp_len
  resp,       \* per thread: send_request's response buffer
  file_size,  \* per thread: ensure_cached_file's file_size
  offset,     \* per thread: ensure_cached_file's offset
  got,        \* per thread: ensure_cached_file's got
  tmp,        \* per thread: the temporary file of its download
  nshort,     \* per thread: short READ replies served to this download
  vsock_mu,   \* owner of the connection mutex
  vsock_fd,   \* -1 or the socket of the connection
  nconn,      \* sockets created so far
  stale,      \* the socket vsock_fd names has seen a failed exchange
  wire,       \* requests sent on the socket and not yet answered
  cache       \* the cache tree

callv == <<cur, ret, prev, hit, in_hook, log>>
xchgv == <<xop, resp_len, resp>>
dlv == <<file_size, offset, got, tmp, nshort>>
connv == <<vsock_fd, nconn, stale, wire>>
vars == <<wl, pc, cur, ret, prev, hit, in_hook, log, xop, resp_len, resp,
          file_size, offset, got, tmp, nshort, vsock_mu, vsock_fd, nconn,
          stale, wire, cache>>

(* The state after the library is loaded, in workload w, with c the     *)
(* call the first thread is about to make (NoCall: any).                *)
InitState(w, c) ==
  /\ wl = w
  /\ pc = [t \in Threads |-> "idle"]
  /\ cur = [t \in Threads |-> IF t = "t1" THEN c ELSE NoCall]
  /\ ret = [t \in Threads |-> NoRet]
  /\ prev = [t \in Threads |-> "other"]
  /\ hit = [t \in Threads |-> FALSE]
  /\ in_hook = [t \in Threads |-> 0]
  /\ log = [t \in Threads |-> <<>>]
  /\ xop = [t \in Threads |-> NoReq]
  /\ resp_len = [t \in Threads |-> 0]
  /\ resp = [t \in Threads |-> NoFrame]
  /\ file_size = [t \in Threads |-> 0]
  /\ offset = [t \in Threads |-> 0]
  /\ got = [t \in Threads |-> 0]
  /\ tmp = [t \in Threads |-> NoEnt]
  /\ nshort = [t \in Threads |-> 0]
  /\ vsock_mu = NoThread
  /\ vsock_fd = -1
  /\ nconn = 0
  /\ stale = FALSE
  /\ wire = <<>>
  /\ cache = [k \in CacheKeys |-> NoEnt]

InitWith(w) == InitState(w, NoCall)

Init == InitWith("seq")
InitConc == InitWith("conc")
InitDl == InitWith("dl")

(* ------------------------------------------------------------------ *)
(* The calls a thread may make                                          *)
(* ------------------------------------------------------------------ *)
PathArgs ==
  IF wl = "seq"
  THEN {<<AT_FDCWD, NULL>>, <<AT_FDCWD, WORKSPACE_DIR>>,
        <<AT_FDCWD, "/workspace/d">>, <<WsFd, "d/g">>,
        <<AT_FDCWD, "/workspaced">>, <<AT_FDCWD, "d">>,
        <<BadFd, "d">>}
  ELSE {<<AT_FDCWD, "/workspace/d">>}

OpenFlagSets ==
  IF wl = "seq"
  THEN {{}, {"O_WRONLY"}, {"O_RDWR"}, {"O_CREAT", "O_EXCL"}, {"O_TRUNC"},
        {"O_WRONLY", "O_CREAT", "O_TRUNC"}}
  ELSE {{}}

StatFlagSets == IF wl = "seq" THEN {{}, {"AT_SYMLINK_NOFOLLOW"}} ELSE {{}}

AccessModes ==
  IF wl = "seq" THEN {{}, {"X_OK"}, {"W_OK"}, {"R_OK", "W_OK"}} ELSE {{"W_OK"}}

FopenModes == IF wl = "seq" THEN {"r", "w", "a", "r+"} ELSE {"w"}

Active(t) == wl = "conc" \/ t = "t1"

(* ------------------------------------------------------------------ *)
(* Interception dispatch: the part of a call up to its first access to  *)
(* shared state (the cache check), as one step.                         *)
(* ------------------------------------------------------------------ *)
IsOpen(c) == c.fn \in {"openat", "fopen"}

Wrap(c) == IF c.fn = "fopen" THEN "fdopen:r" ELSE ""

RootOpen == MkCall("real_openat", AT_FDCWD, CACHE_DIR, {"O_DIRECTORY"}, 0, "")

(* A root status without the directory bit. *)
RootStat_regular == [st_mode |-> S_IFREG + 493, st_size |-> 0, st_nlink |-> 2]

RootStat == [st_mode |-> S_IFDIR + 493, st_size |-> 0, st_nlink |-> 2]

(* The outcome of the dispatch of call c by a thread whose guard is g,  *)
(* on cache tree fs.                                                    *)
Dispatch(c, g, fs) ==
  LET cl == Classify(c)
      rel == cl[2]
      done(r, f) == [pc |-> "done", ret |-> r, in_hook |-> g, hit |-> FALSE,
                     xop |-> NoReq, cache |-> f]
  IN IF g # 0 \/ c.pathname = NULL \/ cl[1] = 0
       THEN done(RetReal(Delegate(c), "", ""), fs)
     ELSE IF WriteIntent(c)
       THEN done(RetErr("EROFS"), fs)
     ELSE IF rel = ""
       THEN CASE IsOpen(c) -> done(RetReal(RootOpen, "", Wrap(c)), Mkdir(fs, ""))
              [] c.fn = "fstatat" -> done(RetOk(RootStat), fs)
              [] OTHER -> done(RetOk(NoStat), fs)
     ELSE IF CacheExists(fs, rel)
       THEN IF IsOpen(c)
            THEN [pc |-> "deleg", ret |-> NoRet, in_hook |-> 0, hit |-> TRUE,
                  xop |-> NoReq, cache |-> fs]
            ELSE [pc |-> "done",
                  ret |-> RetOk(IF c.fn = "fstatat" THEN LocalStat(fs[rel]) ELSE NoStat),
                  in_hook |-> 0, hit |-> TRUE, xop |-> NoReq, cache |-> fs]
     ELSE [pc |-> "lock", ret |-> NoRet, in_hook |-> 1, hit |-> FALSE,
           xop |-> StatReq, cache |-> fs]

(* A guard shared by all threads. *)
Guard_shared(t) == IF \E u \in Threads : in_hook[u] # 0 THEN 1 ELSE 0

(* The guard a thread reads: its own thread-local in_hook. *)
Guard(t) == in_hook[t]

Enter(t, c) ==
  /\ Active(t)
  /\ \/ pc[t] = "idle"
     \/ pc[t] = "done" /\ wl = "seq" /\ PrevOf(cur[t], ret[t], c) # "other"
  /\ LET o == Dispatch(c, Guard(t), cache)
     IN /\ pc' = [pc EXCEPT ![t] = o.pc]
        /\ ret' = [ret EXCEPT ![t] = o.ret]
        /\ in_hook' = [in_hook EXCEPT ![t] = o.in_hook]
        /\ hit' = [hit EXCEPT ![t] = o.hit]
        /\ xop' = [xop EXCEPT ![t] = o.xop]
        /\ cache' = o.cache
  /\ cur' = [cur EXCEPT ![t] = c]
  /\ prev' = [prev EXCEPT ![t] = PrevOf(cur[t], ret[t], c)]
  /\ log' = [log EXCEPT ![t] = <<>>]
  /\ file_size' = [file_size EXCEPT ![t] = 0]
  /\ offset' = [offset EXCEPT ![t] = 0]
  /\ got' = [got EXCEPT ![t] = 0]
  /\ nshort' = [nshort EXCEPT ![t] = 0]
  /\ resp_len' = [resp_len EXCEPT ![t] = 0]
  /\ UNCHANGED <<wl, resp, tmp, vsock_mu, connv>>

(* The call has returned and the caller goes on to something unrelated:  *)
(* what the model remembers of the call is dropped.                      *)
Return(t) ==
  /\ pc[t] = "done"
  /\ pc' = [pc EXCEPT ![t] = "idle"]
  /\ cur' = [cur EXCEPT ![t] = NoCall]
  /\ ret' = [ret EXCEPT ![t] = NoRet]
  /\ prev' = [prev EXCEPT ![t] = "other"]
  /\ hit' = [hit EXCEPT ![t] = FALSE]
  /\ log' = [log EXCEPT ![t] = <<>>]
  /\ xop' = [xop EXCEPT ![t] = NoReq]
  /\ file_size' = [file_size EXCEPT ![t] = 0]
  /\ offset' = [offset EXCEPT ![t] = 0]
  /\ got' = [got EXCEPT ![t] = 0]
  /\ nshort' = [nshort EXCEPT ![t] = 0]
  /\ resp_len' = [resp_len EXCEPT ![t] = 0]
  /\ UNCHANGED <<wl, in_hook, resp, tmp, vsock_mu, connv, cache>>

(* openat, and open, open64, openat64 which call it. *)
Openat(t) ==
  \E pa \in PathArgs, fl \in OpenFlagSets :
    Enter(t, MkCall("openat", pa[1], pa[2], fl,
                    IF "O_CREAT" \in fl THEN 420 ELSE 0, ""))

(* fstatat, and stat, lstat, __xstat, __lxstat which call it. *)
Fstatat(t) ==
  \E pa \in PathArgs, fl \in StatFlagSets :
    Enter(t, MkCall("fstatat", pa[1], pa[2], fl, 0, ""))

(* faccessat, and access which calls it. *)
Faccessat(t) ==
  \E pa \in PathArgs, m \in AccessModes :
    Enter(t, MkCall("faccessat", pa[1], pa[2], m, 0, ""))

(* fopen, and fopen64 which calls it. *)
Fopen(t) ==
  \E pa \in {a \in PathArgs : a[1] = AT_FDCWD}, m \in FopenModes :
    Enter(t, MkCall("fopen", pa[1], pa[2], {}, 0, m))

(* ------------------------------------------------------------------ *)
(* Return of a remote operation into its caller                         *)
(* ------------------------------------------------------------------ *)
(* A failure that reports an I/O error. *)
FailCall_eio(t) ==
  /\ pc' = [pc EXCEPT ![t] = "done"]
  /\ in_hook' = [in_hook EXCEPT ![t] = 0]
  /\ ret' = [ret EXCEPT ![t] = RetErr("EIO")]
  /\ tmp' = [tmp EXCEPT ![t] = NoEnt]

(* The call fails: the guard is cleared and ENOENT is reported; a       *)
(* temporary file, if any, is unlinked.                                 *)
FailCall(t) ==
  /\ pc' = [pc EXCEPT ![t] = "done"]
  /\ in_hook' = [in_hook EXCEPT ![t] = 0]
  /\ ret' = [ret EXCEPT ![t] = RetErr("ENOENT")]
  /\ tmp' = [tmp EXCEPT ![t] = NoEnt]

(* The loop test of the download, entered with the offset reached. *)
LoopTest(t, off) ==
  IF off < file_size[t]
  THEN /\ pc' = [pc EXCEPT ![t] = "lock"]
       /\ xop' = [xop EXCEPT ![t] = ReadReq(off, Want(file_size[t], off))]
  ELSE /\ pc' = [pc EXCEPT ![t] = "rename"]
       /\ xop' = [xop EXCEPT ![t] = NoReq]

(* remote_stat returned rc and st to ensure_cached_file or ensure_cached_stat. *)
AfterStat(t, rc, st) ==
  IF ~IsOpen(cur[t])
  THEN /\ pc' = [pc EXCEPT ![t] = "done"]
       /\ in_hook' = [in_hook EXCEPT ![t] = 0]
       /\ ret' = [ret EXCEPT ![t] =
                   IF rc < 0 THEN RetErr("ENOENT")
                   ELSE RetOk(IF cur[t].fn = "fstatat" THEN st ELSE NoStat)]
       /\ UNCHANGED <<file_size, got, tmp>>
  ELSE IF rc < 0
  THEN FailCall(t) /\ UNCHANGED <<file_size, got>>
  ELSE /\ pc' = [pc EXCEPT ![t] = IF S_ISDIR(st.st_mode) THEN "mkdir" ELSE "mkstemp"]
       /\ file_size' = [file_size EXCEPT ![t] = st.st_size]
       /\ UNCHANGED <<in_hook, ret, got, tmp>>

(* A download loop that asks again after a reply of zero bytes. *)
AfterRead_no_break(t, n) ==
  IF n < 0
  THEN FailCall(t) /\ UNCHANGED <<file_size, got>>
  ELSE /\ pc' = [pc EXCEPT ![t] = IF n = 0 THEN "lock" ELSE "write"]
       /\ got' = [got EXCEPT ![t] = n]
       /\ UNCHANGED <<in_hook, ret, file_size, tmp>>

(* remote_read_chunk returned n to the download loop. *)
AfterRead(t, n) ==
  IF n < 0
  THEN FailCall(t) /\ UNCHANGED <<file_size, got>>
  ELSE /\ pc' = [pc EXCEPT ![t] = IF n = 0 THEN "rename" ELSE "write"]
       /\ got' = [got EXCEPT ![t] = n]
       /\ UNCHANGED <<in_hook, ret, file_size, tmp>>

(* The remote operation in progress failed before any response was parsed. *)
RemoteFailed(t) ==
  IF xop[t].op = "STAT" THEN AfterStat(t, -1, NoStat) ELSE AfterRead(t, -1)

(* ------------------------------------------------------------------ *)
(* One request/response exchange (remote_stat, remote_read_chunk)       *)
(* ------------------------------------------------------------------ *)
MutexFree_unlocked(t) == TRUE

(* An exchange that returns from a failed connect with the mutex held. *)
Released_not_on_connect(t, at) == IF at = "connect" THEN t ELSE NoThread

(* pthread_mutex_unlock(&vsock_mu) by its owner t on the exit path `at` *)
(* of the exchange: the owner it leaves.                                *)
Released(t, at) == NoThread

MutexFree(t) == vsock_mu = NoThread

(* pthread_mutex_lock(&vsock_mu) *)
Lock(t) ==
  /\ pc[t] = "lock"
  /\ MutexFree(t)
  /\ vsock_mu' = t
  /\ pc' = [pc EXCEPT ![t] = "connect"]
  /\ UNCHANGED <<wl, callv, xchgv, dlv, connv, cache>>

(* A connect that never reuses the socket. *)
NeedConnect_always == TRUE

(* vsock_connect has to create a socket. *)
NeedConnect == ~(vsock_fd >= 0)

(* vsock_connect; on failure the mutex is released and the operation fails. *)
Connect(t) ==
  /\ pc[t] = "connect"
  /\ IF ~NeedConnect
     THEN /\ pc' = [pc EXCEPT ![t] = "send"]
          /\ UNCHANGED <<log, vsock_mu, connv, in_hook, ret, file_size, got, tmp>>
     ELSE /\ log' = [log EXCEPT ![t] = Append(@, ConnectEv)]
          /\ \/ /\ nconn < MaxConn
                /\ nconn' = nconn + 1
                /\ vsock_fd' = nconn + 1
                /\ stale' = FALSE
                /\ wire' = <<>>
                /\ pc' = [pc EXCEPT ![t] = "send"]
                /\ UNCHANGED <<vsock_mu, in_hook, ret, file_size, got, tmp>>
             \/ /\ vsock_mu' = Released(t, "connect")
                /\ RemoteFailed(t)
                /\ UNCHANGED connv
  /\ UNCHANGED <<wl, cur, prev, hit, xchgv, offset, nshort, cache>>

(* send_all of the length prefix and the request. *)
SendReq(t) ==
  /\ pc[t] = "send"
  /\ \/ /\ wire' = Append(wire, [by |-> t, op |-> xop[t].op])
        /\ log' = [log EXCEPT ![t] = Append(@, xop[t])]
        /\ pc' = [pc EXCEPT ![t] = "recvlen"]
        /\ UNCHANGED stale
     \/ /\ stale' = TRUE
        /\ pc' = [pc EXCEPT ![t] = "xfail"]
        /\ UNCHANGED <<wire, log>>
  /\ UNCHANGED <<wl, cur, ret, prev, hit, in_hook, xchgv, dlv, vsock_mu,
                 vsock_fd, nconn, cache>>

(* The frames the host may answer the request of thread t with. *)
Frames(t) ==
  IF wl = "dl"
  THEN IF xop[t].op = "STAT" THEN StatFramesDl
       ELSE ReadFramesDl(xop[t].len, nshort[t] < MaxShort)
  ELSE IF xop[t].op = "STAT" THEN StatFrames(wl = "seq")
       ELSE ReadFrames(xop[t].len, wl = "seq", nshort[t] < MaxShort)

(* recv_all of the 4-byte length and its test. *)
RecvLen(t) ==
  /\ pc[t] = "recvlen"
  /\ \/ \E len \in {f.len : f \in Frames(t)} :
           /\ resp_len' = [resp_len EXCEPT ![t] = len]
           /\ IF FrameLenOk(len)
              THEN /\ pc' = [pc EXCEPT ![t] = "recvbody"]
                   /\ UNCHANGED stale
              ELSE /\ stale' = TRUE
                   /\ pc' = [pc EXCEPT ![t] = "xfail"]
     \/ /\ stale' = TRUE
        /\ pc' = [pc EXCEPT ![t] = "xfail"]
        /\ UNCHANGED resp_len
  /\ UNCHANGED <<wl, callv, xop, resp, dlv, vsock_mu, vsock_fd, nconn, wire, cache>>

(* recv_all of the payload. *)
RecvBody(t) ==
  /\ pc[t] = "recvbody"
  /\ \/ \E f \in {g \in Frames(t) : g.len = resp_len[t]} :
           /\ resp' = [resp EXCEPT ![t] = f]
           /\ wire' = Tail(wire)
           /\ pc' = [pc EXCEPT ![t] = "unlock"]
           /\ UNCHANGED stale
     \/ /\ stale' = TRUE
        /\ pc' = [pc EXCEPT ![t] = "xfail"]
        /\ UNCHANGED <<resp, wire>>
  /\ UNCHANGED <<wl, callv, xop, resp_len, dlv, vsock_mu, vsock_fd, nconn, cache>>

(* A disconnect that keeps the socket. *)
Disconnected_kept(fd) == fd

(* vsock_disconnect *)
Disconnected(fd) == -1

(* send_request returned NULL: disconnect, unlock, fail. *)
XFail(t) ==
  /\ pc[t] = "xfail"
  /\ vsock_fd' = Disconnected(vsock_fd)
  /\ stale' = (stale /\ vsock_fd' >= 0)
  /\ wire' = IF vsock_fd' >= 0 THEN wire ELSE <<>>
  /\ vsock_mu' = Released(t, "xfail")
  /\ RemoteFailed(t)
  /\ UNCHANGED <<wl, cur, prev, hit, log, xchgv, offset, nshort, nconn, cache>>

(* send_request returned a response: unlock, parse, return to the caller. *)
Unlock(t) ==
  /\ pc[t] = "unlock"
  /\ vsock_mu' = Released(t, "unlock")
  /\ IF xop[t].op = "STAT"
     THEN LET r == ParseStat(resp[t]) IN AfterStat(t, r[1], r[2]) /\ UNCHANGED nshort
     ELSE LET n == ParseRead(resp[t], xop[t].len)
          IN /\ AfterRead(t, n)
             /\ nshort' = [nshort EXCEPT ![t] =
                             IF 0 < n /\ n < xop[t].len THEN @ + 1 ELSE @]
  /\ resp' = [resp EXCEPT ![t] = NoFrame]
  /\ UNCHANGED <<wl, cur, prev, hit, log, xop, resp_len, offset, connv, cache>>

(* ------------------------------------------------------------------ *)
(* Cache manager: the steps of ensure_cached_file after its STAT        *)
(* ------------------------------------------------------------------ *)
(* Directory branch: mkdirs, mkdir, return 0. *)
MkdirEntry(t) ==
  /\ pc[t] = "mkdir"
  /\ cache' = Mkdir(mkdirs(cache, RelOf(cur[t])), RelOf(cur[t]))
  /\ in_hook' = [in_hook EXCEPT ![t] = 0]
  /\ pc' = [pc EXCEPT ![t] = "deleg"]
  /\ UNCHANGED <<wl, cur, ret, prev, hit, log, xchgv, dlv, vsock_mu, connv>>

(* File branch: mkdirs, mkstemp, then the first loop test. *)
Mkstemp(t) ==
  /\ pc[t] = "mkstemp"
  /\ cache' = mkdirs(cache, RelOf(cur[t]))
  /\ \E ok \in BOOLEAN :
       IF ok /\ cache'[Parent(RelOf(cur[t]))].type = "dir"
       THEN /\ tmp' = [tmp EXCEPT ![t] = FileEnt(t, <<>>)]
            /\ offset' = [offset EXCEPT ![t] = 0]
            /\ nshort' = [nshort EXCEPT ![t] = 0]
            /\ LoopTest(t, 0)
            /\ UNCHANGED <<in_hook, ret>>
       ELSE /\ FailCall(t)
            /\ UNCHANGED <<offset, nshort, xop>>
  /\ UNCHANGED <<wl, cur, prev, hit, log, resp_len, resp, file_size, got,
                 vsock_mu, connv>>

(* The chunk the write loop appends to the temporary file. *)
Chunk(off, n) == [off |-> off, n |-> n]

(* The write loop of one chunk, offset += got, and the next loop test. *)
WriteChunk(t) ==
  /\ pc[t] = "write"
  /\ \E ok \in BOOLEAN :
       IF ok
       THEN /\ tmp' = [tmp EXCEPT ![t] =
                        FileEnt(t, Append(@.data, Chunk(offset[t], got[t])))]
            /\ offset' = [offset EXCEPT ![t] = @ + got[t]]
            /\ LoopTest(t, offset[t] + got[t])
            /\ UNCHANGED <<in_hook, ret>>
       ELSE /\ FailCall(t)
            /\ UNCHANGED <<offset, xop>>
  /\ UNCHANGED <<wl, cur, prev, hit, log, resp_len, resp, file_size, got,
                 nshort, vsock_mu, connv, cache>>

(* A rename that adds the new content to a file already in place. *)
Installed_appended(old, new) ==
  IF old.type = "file" THEN [new EXCEPT !.data = old.data \o new.data] ELSE new

(* What rename(tmp_path, cache_path) leaves at the cache path. *)
Installed(old, new) == new

(* close, rename into place; on failure unlink. *)
Rename(t) ==
  /\ pc[t] = "rename"
  /\ \E ok \in BOOLEAN :
       IF ok /\ cache[RelOf(cur[t])].type # "dir"
       THEN /\ cache' = [cache EXCEPT ![RelOf(cur[t])] = Installed(@, tmp[t])]
            /\ tmp' = [tmp EXCEPT ![t] = NoEnt]
            /\ in_hook' = [in_hook EXCEPT ![t] = 0]
            /\ pc' = [pc EXCEPT ![t] = "deleg"]
            /\ UNCHANGED ret
       ELSE /\ FailCall(t)
            /\ UNCHANGED cache
  /\ UNCHANGED <<wl, cur, prev, hit, log, xchgv, file_size, offset, got,
                 nshort, vsock_mu, connv>>

(* ------------------------------------------------------------------ *)
(* Delegation of an open to the real open of the cache path             *)
(* ------------------------------------------------------------------ *)
(* O_TRUNC without write access is unspecified by POSIX; Linux          *)
(* truncates a file the caller may write.  Both outcomes are allowed.   *)
RealOpenCache(e, flags, trunc) ==
  IF e.type = "file" /\ "O_TRUNC" \in flags /\ trunc
  THEN [e EXCEPT !.data = <<>>]
  ELSE e

Deleg(t) ==
  /\ pc[t] = "deleg"
  /\ LET rel == RelOf(cur[t])
         fl == StripFlags(OFlags(cur[t]))
         call == MkCall("real_openat", AT_FDCWD, cache_path_for(rel), fl, 0, "")
     IN IF cache[rel].type = "none"
        THEN /\ ret' = [ret EXCEPT ![t] = RetReal(call, "ENOENT", "")]
             /\ UNCHANGED cache
        ELSE /\ ret' = [ret EXCEPT ![t] = RetReal(call, "", Wrap(cur[t]))]
             /\ \E trunc \in BOOLEAN :
                  cache' = [cache EXCEPT ![rel] = RealOpenCache(@, fl, trunc)]
  /\ pc' = [pc EXCEPT ![t] = "done"]
  /\ UNCHANGED <<wl, cur, prev, hit, in_hook, log, xchgv, dlv, vsock_mu, connv>>

(* ------------------------------------------------------------------ *)
(* The classification of resolved paths on its own                      *)
(* ------------------------------------------------------------------ *)
PathHeads ==
  {"/workspace", "/workspac", "/Workspace", "workspace", "/workspace ",
   "/tmp/workspace", "/", ""}

PathTails == {"", "/", "d", "/d", "/d/g", "//d", "/.", "/..", "s/x", ".bak"}

(* The resolved paths classified. *)
ResolvedPaths == {h \o tl : h \in PathHeads, tl \in PathTails}

(* The outcome of is_workspace_path as a result record: the return      *)
(* value in kind, *rel in the path of call.                             *)
Classified(r) ==
  [NoRet EXCEPT !.kind = IF r[1] = 1 THEN "in" ELSE "out",
                !.call = MkCall("rel", AT_FDCWD, r[2], {}, 0, "")]

InitPaths ==
  \E p \in ResolvedPaths :
    InitState("paths", MkCall("is_workspace_path", AT_FDCWD, p, {}, 0, ""))

(* is_workspace_path(resolved, &rel) applied to the path at hand. *)
ClassifyPath(t) ==
  /\ wl = "paths"
  /\ pc[t] = "idle"
  /\ cur[t].fn = "is_workspace_path"
  /\ pc' = [pc EXCEPT ![t] = "done"]
  /\ ret' = [ret EXCEPT ![t] = Classified(is_workspace_path(cur[t].pathname))]
  /\ UNCHANGED <<wl, cur, prev, hit, in_hook, log, xchgv, dlv, vsock_mu, connv, cache>>

NextPaths == \E t \in Threads : ClassifyPath(t)

(* ------------------------------------------------------------------ *)
(* Specifications                                                       *)
(* ------------------------------------------------------------------ *)
Next ==
  \E t \in Threads :
    \/ Openat(t)
    \/ Fstatat(t)
    \/ Faccessat(t)
    \/ Fopen(t)
    \/ Return(t)
    \/ Lock(t)
    \/ Connect(t)
    \/ SendReq(t)
    \/ RecvLen(t)
    \/ RecvBody(t)
    \/ XFail(t)
    \/ Unlock(t)
    \/ MkdirEntry(t)
    \/ Mkstemp(t)
    \/ WriteChunk(t)
    \/ Rename(t)
    \/ Deleg(t)

(* ------------------------------------------------------------------ *)
(* Notions the claims share                                             *)
(* ------------------------------------------------------------------ *)
(* The call of thread t is addressed at a workspace path / at a path    *)
(* below the namespace root.                                            *)
InNs(c) == Classify(c)[1] = 1
NonRoot(c) == InNs(c) /\ RelOf(c) # ""

(* Write intent as the specification defines it. *)
WantsWrite(c) ==
  \/ c.fn = "openat" /\ ("O_WRONLY" \in c.flags \/ "O_RDWR" \in c.flags)
  \/ c.fn = "fopen" /\ \E i \in 1..Len(c.smode) :
                          SubSeq(c.smode, i, i) \in {"w", "a", "+"}
  \/ c.fn = "faccessat" /\ "W_OK" \in c.flags

(* Requests of one kind in a log. *)
Sent(l, op) == SelectSeq(l, LAMBDA e : e.op = op)

(* Thread t takes a step that starts a call. *)
Starts(t) ==
  /\ pc[t] \in {"idle", "done"}
  /\ pc'[t] # "idle"
  /\ <<pc[t], cur[t], ret[t], prev[t], log[t]>> # <<pc'[t], cur'[t], ret'[t], prev'[t], log'[t]>>

(* One caller, every kind of call. *)
Spec == Init /\ [][Next]_vars

(* Two concurrent callers on the workspace paths. *)
SpecConc == InitConc /\ [][Next]_vars

(* The steps of thread t's exchange once it holds the mutex. *)
Exchange(t) ==
  Connect(t) \/ SendReq(t) \/ RecvLen(t) \/ RecvBody(t) \/ XFail(t) \/ Unlock(t)

(* Two concurrent callers where every exchange in progress completes or *)
(* fails (the socket has send and receive timeouts) and the mutex is    *)
(* granted to a thread that is able to take it again and again.         *)
SpecConcFair ==
  /\ InitConc
  /\ [][Next]_vars
  /\ \A t \in Threads : WF_vars(Exchange(t)) /\ SF_vars(Lock(t))

(* The steps of thread t between the cache check of a call and the end *)
(* of ensure_cached_file or ensure_cached_stat.                        *)
Download(t) ==
  Lock(t) \/ Exchange(t) \/ MkdirEntry(t) \/ Mkstemp(t) \/ WriteChunk(t) \/ Rename(t)

(* One caller reading below the root, the host free in each reply. *)
SpecDl == InitDl /\ [][Next]_vars

(* The same where every exchange in progress completes or fails (the    *)
(* socket has send and receive timeouts) and every local system call    *)
(* returns.                                                             *)
SpecDlFair ==
  /\ InitDl
  /\ [][Next]_vars
  /\ \A t \in Threads : WF_vars(Download(t))

(* The path classification applied to each resolved path. *)
SpecPaths == InitPaths /\ [][NextPaths]_vars

(* ------------------------------------------------------------------ *)
(* C1                                                                   *)
(* ------------------------------------------------------------------ *)
(* The positions at which a thread connects, sends, receives or         *)
(* disconnects. *)
OnSocket == {"connect", "send", "recvlen", "recvbody", "xfail"}

(* C1: at most one request/response exchange is in flight on the        *)
(* connection: at most one request is unanswered, it belongs to the     *)
(* thread that holds the mutex, and while it is unanswered no other     *)
(* thread is at a position where it sends, receives, connects or        *)
(* disconnects.                                                         *)
C1_OneExchangeInFlight ==
  /\ Len(wire) <= 1
  /\ \A t \in Threads : pc[t] \in OnSocket \cup {"unlock"} => vsock_mu = t
  /\ wire # <<>> =>
       /\ wire[1].by = vsock_mu
       /\ pc[wire[1].by] \in {"recvlen", "recvbody", "xfail"}
       /\ \A u \in Threads \ {wire[1].by} : pc[u] \notin OnSocket

(* A READ of one thread is unanswered while the other thread waits for  *)
(* the mutex to send its own request.                                   *)
C1_Witness ==
  \E a, b \in Threads :
    /\ a # b
    /\ wire = <<[by |-> a, op |-> "READ"]>>
    /\ pc[a] = "recvbody"
    /\ pc[b] = "lock"

(* ------------------------------------------------------------------ *)
(* C2                                                                   *)
(* ------------------------------------------------------------------ *)
(* Thread t takes the step with which its ensure_cached_file fails. *)
EnsureFails(t) ==
  /\ IsOpen(cur[t])
  /\ pc[t] \in {"connect", "xfail", "unlock", "mkstemp", "write", "rename"}
  /\ pc'[t] = "done"

(* C2: the final cache path of a remote file is absent or holds the     *)
(* complete result of one finished transfer: a file appears or changes  *)
(* at a cache path only by the rename of the temporary file of a        *)
(* download whose loop has ended; and the step with which ensure fails   *)
(* removes the temporary file and leaves the final cache path as it was. *)
C2_NoPartialDownload ==
  [][/\ \A k \in CacheKeys :
          (cache'[k] # cache[k] /\ "file" \in {cache[k].type, cache'[k].type}) =>
            \E t \in Threads :
              /\ pc[t] = "rename"
              /\ pc'[t] = "deleg"
              /\ k = RelOf(cur[t])
              /\ cache'[k] = tmp[t]
     /\ \A t \in Threads :
          EnsureFails(t) =>
            /\ tmp'[t] = NoEnt
            /\ cache'[RelOf(cur[t])] = cache[RelOf(cur[t])]]_vars

(* ------------------------------------------------------------------ *)
(* C3                                                                   *)
(* ------------------------------------------------------------------ *)
(* The requests of a call, connects left out. *)
Requests(l) == SelectSeq(l, LAMBDA e : e.op # "CONNECT")

(* The call of thread t is an open without write intent below the root. *)
ReadOpen(t) == IsOpen(cur[t]) /\ NonRoot(cur[t]) /\ ~WantsWrite(cur[t])

(* C3: an open of a non-root workspace path without write intent whose  *)
(* cache path exists stays off the connection and makes no remote call; *)
(* the open that follows a successful open of the same path finds the   *)
(* cache entry and makes no connect, STAT or READ; a successful open of *)
(* a path that was not cached has sent exactly one STAT.                *)
C3_SecondOpenIsLocal ==
  \A t \in Threads :
    ReadOpen(t) =>
      /\ CacheExists(cache, RelOf(cur[t])) =>
           /\ pc[t] \in {"deleg", "done"}
           /\ hit[t] => log[t] = <<>>
      /\ hit[t] /\ pc[t] = "done" => Succeeded(ret[t])
      /\ prev[t] = "same_ok" =>
           /\ hit[t]
           /\ log[t] = <<>>
           /\ pc[t] \in {"deleg", "done"}
      /\ (~hit[t] /\ pc[t] = "done" /\ Succeeded(ret[t])) =>
           /\ Len(Sent(log[t], "STAT")) = 1
           /\ Requests(log[t])[1] = StatReq

C3_Witness ==
  /\ pc["t1"] = "done"
  /\ cur["t1"].fn = "openat"
  /\ cur["t1"].flags = {}
  /\ ReadOpen("t1")
  /\ prev["t1"] = "same_ok"
  /\ cache[RelOf(cur["t1"])].type = "file"
  /\ log["t1"] = <<>>
  /\ Succeeded(ret["t1"])
  /\ vsock_fd >= 0

(* ------------------------------------------------------------------ *)
(* C4                                                                   *)
(* ------------------------------------------------------------------ *)
(* C4: a call with write intent on a path inside the namespace, the     *)
(* root included, returns at once with EROFS; it sends nothing and      *)
(* leaves the connection, the mutex and the cache as they were.         *)
C4_WriteIntentRejected ==
  [][\A t \in Threads :
       (Starts(t) /\ InNs(cur'[t]) /\ WantsWrite(cur'[t])) =>
         /\ pc'[t] = "done"
         /\ ret'[t] = RetErr("EROFS")
         /\ log'[t] = <<>>
         /\ UNCHANGED <<connv, vsock_mu, cache, tmp>>]_vars

C4_Witness ==
  /\ pc["t1"] = "done"
  /\ cur["t1"].fn = "openat"
  /\ cur["t1"].flags = {"O_RDWR"}
  /\ InNs(cur["t1"])
  /\ RelOf(cur["t1"]) = ""
  /\ ret["t1"] = RetErr("EROFS")
  /\ vsock_fd >= 0
  /\ cache["d"].type = "file"

(* ------------------------------------------------------------------ *)
(* C5                                                                   *)
(* ------------------------------------------------------------------ *)
(* C5: a call on a path outside the namespace, or on a path that does   *)
(* not resolve, returns what the real function returns for the caller's *)
(* own directory descriptor, path, flags and mode; it sends nothing and *)
(* leaves the connection, the mutex and the cache as they were.         *)
C5_OutsideDelegated ==
  [][\A t \in Threads :
       (Starts(t) /\ ~InNs(cur'[t])) =>
         /\ pc'[t] = "done"
         /\ ret'[t].kind = "real"
         /\ ret'[t].wrap = ""
         /\ ret'[t].call = [cur'[t] EXCEPT !.fn = "real_" \o @]
         /\ log'[t] = <<>>
         /\ UNCHANGED <<connv, vsock_mu, cache, tmp>>]_vars

C5_Witness ==
  /\ pc["t1"] = "done"
  /\ cur["t1"].fn = "openat"
  /\ cur["t1"].pathname = "/workspaced"
  /\ cur["t1"].flags = {"O_WRONLY", "O_CREAT", "O_TRUNC"}
  /\ ret["t1"].kind = "real"
  /\ ret["t1"].call.flags = {"O_WRONLY", "O_CREAT", "O_TRUNC"}
  /\ vsock_fd >= 0
  /\ cache["d"].type = "file"

(* ------------------------------------------------------------------ *)
(* C6                                                                   *)
(* ------------------------------------------------------------------ *)
(* C6: a response whose declared length is zero or over 16 MiB, and a   *)
(* channel closed before the frame is complete, end the exchange in     *)
(* failure; the step that releases the mutex after a failed exchange    *)
(* leaves the connection disconnected and the call failed; a thread     *)
(* comes to send only on a socket that has seen no failed exchange, and *)
(* if there was no socket, on one created for it and never used before. *)
C6_BadFrameForcesReconnect ==
  [][\A t \in Threads :
       /\ (pc[t] = "recvlen" /\ pc'[t] # "recvlen"
             /\ (resp_len'[t] = 0 \/ resp_len'[t] > 16 * 1024 * 1024)) =>
            pc'[t] = "xfail"
       /\ (pc[t] \in {"recvlen", "recvbody"} /\ pc'[t] = "xfail") =>
            /\ stale'
            /\ vsock_mu' = t
       /\ (pc[t] = "xfail" /\ pc'[t] # "xfail") =>
            /\ vsock_mu = t
            /\ vsock_mu' = NoThread
            /\ vsock_fd' < 0
            /\ pc'[t] = "done"
            /\ ret'[t] = RetErr("ENOENT")
       /\ vsock_mu' = NoThread => ~stale'
       /\ (pc'[t] = "send" /\ pc[t] # "send") =>
            /\ vsock_fd' >= 0
            /\ ~stale'
            /\ wire' = <<>>
            /\ vsock_fd < 0 => vsock_fd' > nconn]_vars

C6_Witness ==
  \E a, b \in Threads :
    /\ a # b
    /\ pc[a] = "done"
    /\ resp_len[a] > 16 * 1024 * 1024
    /\ ret[a] = RetErr("ENOENT")
    /\ pc[b] = "recvlen"
    /\ log[b] = <<ConnectEv, StatReq>>
    /\ vsock_fd = 2

(* ------------------------------------------------------------------ *)
(* C7                                                                   *)
(* ------------------------------------------------------------------ *)
(* The READs of thread t's download were each served in full: the file  *)
(* f holds one chunk per READ sent, of the length asked.                *)
ServedInFull(t, f) ==
  LET reads == Sent(log[t], "READ")
  IN /\ Len(f.data) = Len(reads)
     /\ \A k \in 1..Len(reads) : f.data[k].n = reads[k].len

(* C7: when an open of an uncached path has installed a file of size S  *)
(* reported by the host, and every READ was served in full, the call    *)
(* sent one STAT and then ceil(S / 1 MiB) READs, the k-th at offset     *)
(* (k-1) * 1 MiB for min(1 MiB, S - offset) bytes, and the cache file   *)
(* is the sequence of the served chunks, S bytes long.                  *)
C7_ChunkedDownload ==
  \A t \in Threads :
    (/\ pc[t] = "deleg"
     /\ ReadOpen(t)
     /\ ~hit[t]
     /\ cache[RelOf(cur[t])].type = "file"
     /\ ServedInFull(t, cache[RelOf(cur[t])])) =>
      LET S == file_size[t]
          f == cache[RelOf(cur[t])]
          reads == Sent(log[t], "READ")
          N == (S + 1048576 - 1) \div 1048576
          at(k) == (k - 1) * 1048576
      IN /\ Requests(log[t]) = <<StatReq>> \o reads
         /\ Len(reads) = N
         /\ \A k \in 1..N :
              /\ reads[k].off = at(k)
              /\ reads[k].len = (IF S - at(k) < 1048576 THEN S - at(k) ELSE 1048576)
         /\ f.data = [k \in 1..N |-> [off |-> reads[k].off, n |-> reads[k].len]]
         /\ DataLen(f.data) = S

C7_Witness ==
  /\ pc["t1"] = "deleg"
  /\ ReadOpen("t1")
  /\ ~hit["t1"]
  /\ file_size["t1"] = 3000000
  /\ Sent(log["t1"], "READ") =
       <<ReadReq(0, 1048576), ReadReq(1048576, 1048576), ReadReq(2097152, 902848)>>
  /\ cache[RelOf(cur["t1"])].type = "file"
  /\ DataLen(cache[RelOf(cur["t1"])].data) = 3000000

(* ------------------------------------------------------------------ *)
(* C8                                                                   *)
(* ------------------------------------------------------------------ *)
(* Thread t takes the step in which its remote operation fails: the     *)
(* connect fails, the exchange has failed and is given up, or the       *)
(* response says not-found.                                             *)
RemoteFailure(t) ==
  \/ pc[t] = "connect" /\ vsock_mu' = NoThread /\ pc'[t] # "connect"
  \/ pc[t] = "xfail" /\ pc'[t] # "xfail"
  \/ pc[t] = "unlock" /\ pc'[t] # "unlock" /\ resp[t].status # STATUS_OK

(* C8: the step in which the remote operation of an open, status query  *)
(* or access check on a non-root workspace path fails ends the call     *)
(* with ENOENT, and no such call without write intent ever returns an   *)
(* error other than ENOENT of its own.                                  *)
C8_RemoteFailureIsNotFound ==
  [][\A t \in Threads :
       /\ (NonRoot(cur[t]) /\ RemoteFailure(t)) =>
            /\ pc'[t] = "done"
            /\ ret'[t] = RetErr("ENOENT")
       /\ (pc'[t] = "done" /\ NonRoot(cur'[t]) /\ ~WantsWrite(cur'[t])
             /\ ret'[t].kind = "err") =>
            ret'[t].errno = "ENOENT"]_vars

C8_Witness ==
  /\ pc["t1"] = "done"
  /\ cur["t1"].fn = "openat"
  /\ NonRoot(cur["t1"])
  /\ ret["t1"] = RetErr("ENOENT")
  /\ Len(Sent(log["t1"], "READ")) = 2
  /\ resp_len["t1"] > 16 * 1024 * 1024
  /\ vsock_fd < 0

(* ------------------------------------------------------------------ *)
(* C9                                                                   *)
(* ------------------------------------------------------------------ *)
(* C9: a call without write intent on the namespace root returns at     *)
(* once, sends nothing and leaves the connection and the mutex as they  *)
(* were: a status query succeeds with a directory status of link count  *)
(* 2, an access check succeeds, and an open returns what the real       *)
(* openat returns for the cache root with O_RDONLY|O_DIRECTORY.         *)
C9_RootIsLocal ==
  [][\A t \in Threads :
       (Starts(t) /\ InNs(cur'[t]) /\ RelOf(cur'[t]) = "" /\ ~WantsWrite(cur'[t])) =>
         /\ pc'[t] = "done"
         /\ log'[t] = <<>>
         /\ UNCHANGED <<connv, vsock_mu, tmp>>
         /\ CASE cur'[t].fn = "fstatat" ->
                   /\ ret'[t].kind = "ok"
                   /\ ret'[t].st.st_mode \div 4096 = 4
                   /\ ret'[t].st.st_nlink = 2
              [] cur'[t].fn = "faccessat" -> ret'[t].kind = "ok"
              [] OTHER ->
                   /\ ret'[t].kind = "real"
                   /\ ret'[t].call = MkCall("real_openat", -100, "/tmp/.wscache/",
                                            {"O_DIRECTORY"}, 0, "")]_vars

C9_Witness ==
  /\ pc["t1"] = "done"
  /\ cur["t1"].fn = "fstatat"
  /\ InNs(cur["t1"])
  /\ RelOf(cur["t1"]) = ""
  /\ ret["t1"].kind = "ok"
  /\ ret["t1"].st.st_nlink = 2
  /\ vsock_fd >= 0
  /\ cache[""].type = "none"

(* ------------------------------------------------------------------ *)
(* C10                                                                  *)
(* ------------------------------------------------------------------ *)
(* The call of thread t is a status query or access check without write *)
(* intent below the root. *)
ReadQuery(t) == ~IsOpen(cur[t]) /\ NonRoot(cur[t]) /\ ~WantsWrite(cur[t])

ShortPayload(t) ==
  /\ pc[t] = "unlock"
  /\ pc'[t] # "unlock"
  /\ resp[t].status = 0
  /\ resp[t].len < (IF xop[t].op = "STAT" THEN 22 ELSE 5)

(* C11: a response with OK status and fewer than 22 bytes (STAT) or     *)
(* fewer than 5 bytes (READ) fails the remote operation: the call that  *)
(* met it ends with failure at once and the cache is left as it was.    *)
C11_ShortPayloadFails ==
  [][\A t \in Threads :
       (ShortPayload(t) /\ NonRoot(cur[t])) =>
         /\ pc'[t] = "done"
         /\ ~Succeeded(ret'[t])
         /\ cache' = cache]_vars

(* ------------------------------------------------------------------ *)
(* C12                                                                  *)
(* ------------------------------------------------------------------ *)
(* Thread t takes the step in which its remote operation returns after  *)
(* a protocol error: a failed exchange is given up, or a response       *)
(* shorter than the operation's header is parsed.                       *)
ProtocolError(t) ==
  \/ pc[t] = "xfail" /\ pc'[t] # "xfail"
  \/ ShortPayload(t)

(* C12: when the remote operation that met a protocol error returns,    *)
(* the connection is disconnected, so that the next remote call has to  *)
(* connect anew.                                                        *)
C12_ProtocolErrorDisconnects ==
  [][\A t \in Threads : ProtocolError(t) => vsock_fd' < 0]_vars

(* ------------------------------------------------------------------ *)
(* C13                                                                  *)
(* ------------------------------------------------------------------ *)
(* C13: once a cache entry exists for a relative path, no step of any   *)
(* intercepted call changes its content, replaces it or deletes it.     *)
C13_CacheEntryImmutable ==
  [][\A k \in CacheKeys : cache[k].type # "none" => cache'[k] = cache[k]]_vars

(* ------------------------------------------------------------------ *)
(* C14                                                                  *)
(* ------------------------------------------------------------------ *)
(* File f holds chunks of thread t's own transfer only: it was created  *)
(* by t and its k-th chunk is what t's k-th READ brought, at the offset *)
(* that READ asked for, each chunk starting where the one before ends.  *)
OwnChunks(t, f, l) ==
  LET reads == Sent(l, "READ")
  IN /\ f.by = t
     /\ Len(Sent(l, "STAT")) = 1
     /\ Len(f.data) <= Len(reads)
     /\ \A k \in 1..Len(f.data) :
          /\ f.data[k].off = reads[k].off
          /\ f.data[k].n > 0
          /\ f.data[k].n <= reads[k].len
          /\ f.data[k].off = DataLen(SubSeq(f.data, 1, k - 1))

(* File f is the whole image of thread t's transfer: the transfer has   *)
(* reached the size the host reported or was told the stream had ended. *)
WholeImage(t, f, l) ==
  /\ OwnChunks(t, f, l)
  /\ \/ DataLen(f.data) >= file_size[t]
     \/ Len(Sent(l, "READ")) = Len(f.data) + 1

(* C14: with two threads downloading the same path, each temporary file *)
(* holds chunks of its own thread's READs only; a file at a final cache *)
(* path appears or changes only by a rename that puts the whole image   *)
(* of the renaming thread's finished transfer there, so the last rename *)
(* decides the content; and a file in place is never removed.           *)
C14_ConcurrentImagesWhole ==
  [][/\ \A t \in Threads :
          tmp'[t].type = "file" => OwnChunks(t, tmp'[t], log'[t])
     /\ \A k \in CacheKeys :
          /\ cache[k].type = "file" => cache'[k].type = "file"
          /\ (cache'[k] # cache[k] /\ cache'[k].type = "file") =>
               \E t \in Threads :
                 /\ pc[t] = "rename"
                 /\ pc'[t] = "deleg"
                 /\ RelOf(cur[t]) = k
                 /\ cache'[k] = tmp[t]
                 /\ WholeImage(t, tmp[t], log[t])]_vars

C14_Witness ==
  \E a, b \in Threads :
    /\ a # b
    /\ pc[a] = "done" /\ pc[b] = "done"
    /\ ~hit[a] /\ ~hit[b]
    /\ Succeeded(ret[a]) /\ Succeeded(ret[b])
    /\ Len(Sent(log[a], "READ")) = 1
    /\ Len(Sent(log[b], "READ")) = 2
    /\ cache["d"].by = b
    /\ DataLen(cache["d"].data) = 2 * 1048576

(* ------------------------------------------------------------------ *)
(* C15                                                                  *)
(* ------------------------------------------------------------------ *)
(* C15: a resolved path is classified as inside the namespace exactly   *)
(* when it is "/workspace" (relative path empty) or is "/workspace/"    *)
(* followed by a remainder (relative path that remainder); every other  *)
(* path, "/workspaced" among them, is classified as outside.            *)
C15_ClassificationExact ==
  \A t \in Threads :
    (wl = "paths" /\ pc[t] = "done") =>
      LET p == cur[t].pathname
          rel == ret[t].call.pathname
      IN IF p = "/workspace"
         THEN ret[t].kind = "in" /\ rel = ""
         ELSE IF Len(p) >= 11 /\ SubSeq(p, 1, 10) = "/workspace" /\ SubSeq(p, 11, 11) = "/"
         THEN ret[t].kind = "in" /\ p = "/workspace/" \o rel
         ELSE ret[t].kind = "out"

C15_Witness ==
  /\ wl = "paths"
  /\ pc["t1"] = "done"
  /\ cur["t1"].pathname = "/workspaced"
  /\ ret["t1"].kind = "out"

(* ------------------------------------------------------------------ *)
(* C16                                                                  *)
(* ------------------------------------------------------------------ *)
(* C16: a connect is attempted only by a thread at the connect position *)
(* of its exchange and only while there is no socket, and the thread    *)
(* passes that position once per exchange; with a socket present the    *)
(* exchange goes on to send on it without connecting; a failed connect  *)
(* ends the call in failure with nothing sent, no socket and the mutex  *)
(* released; a completed exchange leaves the socket it used in place.   *)
C16_ConnectionStateMachine ==
  [][\A t \in Threads :
       /\ log'[t] = Append(log[t], ConnectEv) =>
            /\ pc[t] = "connect"
            /\ vsock_fd < 0
       /\ (pc'[t] = "connect" /\ pc[t] # "connect") => pc[t] = "lock"
       /\ (pc[t] = "connect" /\ pc'[t] # "connect") =>
            IF vsock_fd >= 0
            THEN /\ pc'[t] = "send"
                 /\ log'[t] = log[t]
                 /\ UNCHANGED <<vsock_fd, nconn, wire>>
            ELSE /\ log'[t] = Append(log[t], ConnectEv)
                 /\ \/ /\ pc'[t] = "send"
                       /\ vsock_fd' >= 0
                    \/ /\ pc'[t] = "done"
                       /\ ~Succeeded(ret'[t])
                       /\ vsock_fd' < 0
                       /\ wire' = wire
                       /\ vsock_mu' = NoThread
       /\ (pc[t] = "unlock" /\ pc'[t] # "unlock") =>
            /\ vsock_fd >= 0
            /\ vsock_fd' = vsock_fd]_vars

C16_Witness ==
  \E a, b \in Threads :
    /\ a # b
    /\ pc[a] = "done"
    /\ Succeeded(ret[a])
    /\ log[a] # <<>>
    /\ log[a][1] = ConnectEv
    /\ pc[b] = "recvlen"
    /\ log[b] = <<StatReq>>
    /\ vsock_fd = 1
    /\ nconn = 1

(* ------------------------------------------------------------------ *)
(* C17                                                                  *)
(* ------------------------------------------------------------------ *)
(* Thread t takes the step in which ensure_cached_file receives the     *)
(* result of a STAT that was answered with a complete OK response.      *)
StatAnswered(t) ==
  /\ pc[t] = "unlock"
  /\ pc'[t] # "unlock"
  /\ IsOpen(cur[t])
  /\ xop[t].op = "STAT"
  /\ resp[t].status = 0
  /\ resp[t].len >= 22

(* C17: ensure on an uncached path takes the directory branch exactly   *)
(* when the is-directory flag of the STAT response is set and the       *)
(* download branch exactly when it is clear, whatever the mode bits;    *)
(* the directory branch creates the cache directory, sends no READ and  *)
(* succeeds.                                                            *)
C17_BranchFollowsIsDir ==
  [][\A t \in Threads :
       /\ StatAnswered(t) =>
            pc'[t] = (IF resp[t].is_dir # 0 THEN "mkdir" ELSE "mkstemp")
       /\ (pc[t] = "mkdir" /\ pc'[t] # "mkdir") =>
            /\ pc'[t] = "deleg"
            /\ cache'[RelOf(cur[t])].type = "dir"
            /\ Sent(log'[t], "READ") = <<>>]_vars

(* ------------------------------------------------------------------ *)
(* C18                                                                  *)
(* ------------------------------------------------------------------ *)
(* The positions of a thread inside ensure_cached_file or               *)
(* ensure_cached_stat. *)
InEnsure ==
  {"lock", "connect", "send", "recvlen", "recvbody", "xfail", "unlock",
   "mkdir", "mkstemp", "write", "rename"}

(* C18: a thread's guard changes only by that thread's own steps, is    *)
(* set only while the thread is inside ensure, and is clear whenever    *)
(* the thread is outside the library or has returned from a call; and   *)
(* a call on a workspace path started while another thread's guard is   *)
(* set is not handed to the real function on the original path.         *)
C18_GuardPerThread ==
  [][\A t \in Threads :
       /\ in_hook'[t] \in {0, 1}
       /\ in_hook'[t] # in_hook[t] => pc'[t] # pc[t]
       /\ in_hook'[t] = 1 => pc'[t] \in InEnsure
       /\ pc'[t] \in {"idle", "done"} => in_hook'[t] = 0
       /\ (Starts(t) /\ InNs(cur'[t]) /\ \E u \in Threads \ {t} : in_hook[u] = 1) =>
            /\ ~(ret'[t].kind = "real" /\ ret'[t].call.pathname = cur'[t].pathname)
            /\ WantsWrite(cur'[t]) => ret'[t] = RetErr("EROFS")
            /\ ~WantsWrite(cur'[t]) => pc'[t] \in {"lock", "deleg", "done"}
            /\ (~WantsWrite(cur'[t]) /\ pc'[t] = "done") => ret'[t].kind = "ok"]_vars

C18_Witness ==
  \E a, b \in Threads :
    /\ a # b
    /\ in_hook[a] = 1
    /\ pc[a] = "recvbody"
    /\ in_hook[b] = 1
    /\ pc[b] = "lock"
    /\ InNs(cur[b])

(* ------------------------------------------------------------------ *)
(* C19                                                                  *)
(* ------------------------------------------------------------------ *)
(* C19: after the declared length of a response has been received the  *)
(* exchange either goes on to read the payload or fails, and it goes on *)
(* to read the payload only when the declared length is nonzero and     *)
(* below 16 MiB, so not when it is 16 MiB itself.                       *)
C19_AcceptedLengthBelowBound ==
  [][\A t \in Threads :
       /\ (pc[t] = "recvlen" /\ pc'[t] # "recvlen") =>
            pc'[t] \in {"recvbody", "xfail"}
       /\ (pc[t] = "recvlen" /\ pc'[t] = "recvbody") =>
            /\ 0 < resp_len'[t]
            /\ resp_len'[t] < 16 * 1024 * 1024]_vars

Ensuring(t) == pc[t] \notin {"idle", "done", "deleg"}

(* C21: the download loop terminates when every exchange completes or   *)
(* fails.  The return of a READ either fails the call, or ends the loop *)
(* on zero bytes, or hands a positive count to the write loop; a chunk  *)
(* written advances the offset by exactly that count, never beyond the  *)
(* reported size, and the offset moves in no other way; a download has  *)
(* sent at most as many READ requests as the reported size; and a       *)
(* thread inside ensure eventually leaves it, with success or failure.  *)
C21_DownloadTerminates ==
  /\ [][\A t \in Threads :
          /\ (pc[t] \in OnSocket \cup {"unlock"} /\ xop[t].op = "READ"
                /\ pc'[t] \notin OnSocket \cup {"unlock"}) =>
               \/ pc'[t] = "done" /\ ret'[t] = RetErr("ENOENT")
               \/ pc'[t] = "rename" /\ got'[t] = 0
               \/ pc'[t] = "write" /\ got'[t] > 0
          /\ (pc[t] = "write" /\ pc'[t] # "done") =>
               /\ offset'[t] = offset[t] + got[t]
               /\ offset'[t] > offset[t]
               /\ offset'[t] <= file_size[t]
               /\ pc'[t] = (IF offset'[t] < file_size[t] THEN "lock" ELSE "rename")
          /\ offset'[t] # offset[t] => (pc[t] = "write" \/ offset'[t] = 0)]_vars
  /\ [](\A t \in Threads :
          tmp[t].type = "file" => Len(Sent(log[t], "READ")) <= file_size[t])
  /\ \A t \in Threads : Ensuring(t) ~> (pc[t] \in {"done", "deleg"})

(* A file of MaxSize bytes was fetched one byte at a time, with as many *)
(* READ requests as it has bytes, and ensure has returned success.      *)
C21_Witness ==
  \E t \in Threads :
    /\ pc[t] = "deleg"
    /\ file_size[t] = MaxSize
    /\ offset[t] = MaxSize
    /\ Len(Sent(log[t], "READ")) = MaxSize
    /\ \A i \in 1..MaxSize :
         Sent(log[t], "READ")[i] = ReadReq(i - 1, MaxSize - (i - 1))
    /\ cache[RelOf(cur[t])].type = "file"
    /\ DataLen(cache[RelOf(cur[t])].data) = MaxSize

(* ------------------------------------------------------------------ *)
(* C22                                                                  *)
(* ------------------------------------------------------------------ *)
(* C22: the bytes written for a file never exceed the size its STAT     *)
(* reported.  Every READ request of a download asks for                 *)
(* min(READ_CHUNK_SIZE, file_size - offset) bytes, a positive number;   *)
(* the count handed to the write loop is at most the length asked and   *)
(* at most the bytes present in the payload; the temporary file holds   *)
(* exactly offset bytes, at most file_size; and the file a download     *)
(* installs is no longer than the size reported to that download.       *)
C22_WrittenWithinReportedSize ==
  /\ [](\A t \in Threads :
          /\ tmp[t].type = "file" =>
               /\ DataLen(tmp[t].data) = offset[t]
               /\ offset[t] <= file_size[t]
          /\ xop[t].op = "READ" =>
               /\ xop[t].off = offset[t]
               /\ xop[t].len >= 1
               /\ xop[t].len <= READ_CHUNK_SIZE
               /\ xop[t].len <= file_size[t] - offset[t]
               /\ (xop[t].len = READ_CHUNK_SIZE \/ xop[t].len = file_size[t] - offset[t])
          /\ pc[t] = "write" =>
               /\ got[t] <= xop[t].len
               /\ got[t] <= resp_len[t] - READ_HDR
               /\ offset[t] + got[t] <= file_size[t])
  /\ [][\A t \in Threads :
          (pc[t] = "rename" /\ pc'[t] = "deleg") =>
            /\ cache'[RelOf(cur[t])].type = "file"
            /\ DataLen(cache'[RelOf(cur[t])].data) <= file_size[t]]_vars

(* The second READ of a download was answered with more bytes than it   *)
(* asked for, and the file installed has exactly the reported size.     *)
C22_Witness ==
  \E t \in Threads :
    /\ pc[t] = "deleg"
    /\ file_size[t] = MaxSize
    /\ Len(Sent(log[t], "READ")) = 2
    /\ resp_len[t] > READ_HDR + Sent(log[t], "READ")[2].len
    /\ cache[RelOf(cur[t])].type = "file"
    /\ DataLen(cache[RelOf(cur[t])].data) = file_size[t]

====
